---- MODULE Spec2Model ----
(***************************************************************************)
(* A model of the three services of the repository:                        *)
(*   - CensorService  (ContentFilter)  src/unnamed/part_000                *)
(*   - CommentService (CommentStore)   src/unnamed/part_001                *)
(*   - APIGateway     (Gateway)        src/api-gateway/main.go             *)
(* Go strings are sequences of bytes (0..255); a text is given by its      *)
(* Unicode code points and encoded in UTF-8, as the Go source and the JSON *)
(* decoder do.                                                             *)
(***************************************************************************)
EXTENDS Integers, Sequences, FiniteSets, TLC

(***************************************************************************)
(* Bounds of the model.                                                    *)
(***************************************************************************)
\* number of requests (each served by its own goroutine) in one behaviour
NumProcs == 2
\* longest run of characters put before and after a term in a filter input
MaxPad == 1
\* number of comments created in one behaviour
MaxCreates == 3
MaxSeed == 2

Procs == 1..NumProcs

(***************************************************************************)
(* HTTP status codes used by the handlers.                                 *)
(***************************************************************************)
StatusOK == 200
StatusBadRequest == 400
StatusMethodNotAllowed == 405
StatusInternalServerError == 500

(***************************************************************************)
(* Strings.                                                                *)
(***************************************************************************)
\* the UTF-8 encoding of one code point (below U+0800: one or two bytes)
UTF8Char(cp) ==
    IF cp < 128 THEN <<cp>>
    ELSE <<192 + (cp \div 64), 128 + (cp % 64)>>

RECURSIVE UTF8(_)
\* the bytes of the Go string whose characters are the code points cps
UTF8(cps) ==
    IF cps = <<>> THEN <<>>
    ELSE UTF8Char(Head(cps)) \o UTF8(Tail(cps))

\* "qwerty", "йцукен", "zxvbnm" as code points
WordQwerty == <<113, 119, 101, 114, 116, 121>>
WordJcuken == <<1081, 1094, 1091, 1082, 1077, 1085>>
WordZxvbnm == <<122, 120, 118, 98, 110, 109>>

\* prohibitedWords := []string{"qwerty", "йцукен", "zxvbnm"}
prohibitedWords == <<UTF8(WordQwerty), UTF8(WordJcuken), UTF8(WordZxvbnm)>>

(***************************************************************************)
(* CensorService: the censorship predicate.                                *)
(***************************************************************************)
\* toLower: every byte in 'A'..'Z' is moved to 'a'..'z', every other byte kept
toLower(s) ==
    [i \in 1..Len(s) |-> IF s[i] >= 65 /\ s[i] <= 90 THEN s[i] + (97 - 65) ELSE s[i]]

\* contains: some offset i at which every byte of substr matches
contains(s, substr) ==
    IF Len(substr) = 0 THEN TRUE
    ELSE IF Len(substr) > Len(s) THEN FALSE
    ELSE \E i \in 0..(Len(s) - Len(substr)) :
            \A j \in 0..(Len(substr) - 1) : s[i + j + 1] = substr[j + 1]

containsIgnoreCase(s, substr) == contains(toLower(s), toLower(substr))

containsProhibitedWords(text) ==
    \E k \in 1..Len(prohibitedWords) : containsIgnoreCase(text, prohibitedWords[k])

\* checkHandler: the status CensorService answers a /check request with
checkHandler(req) ==
    IF req.method # "POST" THEN StatusMethodNotAllowed
    ELSE IF ~req.ok THEN StatusBadRequest
    ELSE IF containsProhibitedWords(req.text) THEN StatusBadRequest
    ELSE StatusOK

(***************************************************************************)
(* Numbers in text: strconv.Atoi and fmt.Sprintf("%d").                    *)
(***************************************************************************)
IsDigit(b) == b >= 48 /\ b <= 57

RECURSIVE DigitsValue(_)
\* the number a non-empty run of decimal digits denotes
DigitsValue(s) ==
    IF s = <<>> THEN 0
    ELSE 10 * DigitsValue(SubSeq(s, 1, Len(s) - 1)) + (s[Len(s)] - 48)

\* strconv.Atoi: an optional sign followed by one or more digits
Atoi(s) ==
    LET signed == Len(s) > 0 /\ (s[1] = 43 \/ s[1] = 45)
        digits == IF signed THEN Tail(s) ELSE s
    IN  IF digits = <<>> \/ \E i \in 1..Len(digits) : ~IsDigit(digits[i])
        THEN [ok |-> FALSE, val |-> 0]
        ELSE [ok |-> TRUE,
              val |-> IF signed /\ s[1] = 45 THEN 0 - DigitsValue(digits)
                      ELSE DigitsValue(digits)]

RECURSIVE NatDigits(_)
NatDigits(n) ==
    IF n < 10 THEN <<48 + n>>
    ELSE NatDigits(n \div 10) \o <<48 + (n % 10)>>

\* fmt.Sprintf("%d", n)
Itoa(n) == IF n < 0 THEN <<45>> \o NatDigits(0 - n) ELSE NatDigits(n)

(***************************************************************************)
(* Inputs: what clients send.                                              *)
(***************************************************************************)
\* "hello" and "QWERTY123"
TextHello == UTF8(<<104, 101, 108, 108, 111>>)
TextQwerty123 == UTF8(<<81, 87, 69, 82, 84, 89, 49, 50, 51>>)

\* news keys clients use, as they are written in a URL
NewsKeys == {1, 2}

\* a nil *int is <<>>, a pointer to v is <<v>>
NilInt == <<>>


\* a request body that is not JSON
BadBody == [ok |-> FALSE, news_id |-> 0, parent_id |-> NilInt, text |-> <<>>]
\* the JSON bodies {news_id, parent_id, text}
GoodBodies ==
    {[ok |-> TRUE, news_id |-> 1, parent_id |-> NilInt, text |-> TextHello],
     [ok |-> TRUE, news_id |-> 2, parent_id |-> <<1>>, text |-> TextHello],
     [ok |-> TRUE, news_id |-> 1, parent_id |-> <<1>>, text |-> TextQwerty123]}
Bodies == GoodBodies \cup {BadBody}

\* what follows "/news/" in a URL path, and the news_id query parameter
NumberTexts == {<<>>, <<97, 98, 99>>} \cup {Itoa(k) : k \in NewsKeys}

(***************************************************************************)
(* State.                                                                  *)
(***************************************************************************)
VARIABLES
    comments,   \* CommentService: var comments []Comment
    nextID,     \* CommentService: var nextID = 1
    st,         \* CommentService: the handler goroutine of each request
    gw,         \* APIGateway: the handler goroutine of each request
    chk,        \* CensorService: a /check request and its answer
    hist        \* history: the create calls in the order of their appends,
                \* each with the identifier it returned once it has returned

vars == <<comments, nextID, st, gw, chk, hist>>

NoComment == [ID |-> 0, NewsID |-> 0, ParentID |-> NilInt, Text |-> <<>>]
\* (views, of a goroutine serving a list call: the values comments has had
\* since the call began to read it)
\* a []Comment as JSON: null for a nil slice, else the array of its elements
NilSlice == [null |-> TRUE, elems |-> <<>>]
EmptySlice == [null |-> FALSE, elems |-> <<>>]

NoStoreReq == [method |-> "", hdr |-> <<>>, body |-> BadBody, query |-> <<>>]
StIdle ==
    [pc |-> "idle", req |-> NoStoreReq, comment |-> NoComment, snap |-> <<>>,
     tmp |-> 0, status |-> 0, id |-> 0, list |-> NilSlice, h |-> 0, views |-> {}]

NoGwReq == [route |-> "", method |-> "", hdr |-> <<>>, body |-> BadBody, path |-> <<>>]
\* a goroutine of the gateway: its request, the request_id of its context, the
\* downstream calls it made (calls), the answers it got to them (got) and
\* how each ended (filter, store, list), and its response
GwIdle ==
    [pc |-> "idle", req |-> NoGwReq, rid |-> <<>>, newsID |-> 0, calls |-> <<>>,
     got |-> <<>>,
     filter |-> "", fstatus |-> 0, store |-> "", list |-> "",
     status |-> 0, msg |-> "", id |-> 0, comments |-> NilSlice]

ChkIdle ==
    [pc |-> "idle", cps |-> <<>>, req |-> [method |-> "", ok |-> FALSE, text |-> <<>>],
     status |-> 0]

Init ==
    /\ comments = <<>>
    /\ nextID = 1
    /\ st = [p \in Procs |-> StIdle]
    /\ gw = [p \in Procs |-> GwIdle]
    /\ chk = ChkIdle
    /\ hist = <<>>

(***************************************************************************)
(* CommentService.                                                         *)
(***************************************************************************)
\* the requests clients send to /comments
StoreRequests ==
    {[method |-> "POST", hdr |-> h, body |-> b, query |-> <<>>] : h \in {<<>>}, b \in Bodies}
    \cup {[method |-> "GET", hdr |-> h, body |-> BadBody, query |-> q] :
            h \in {<<>>}, q \in NumberTexts}
    \cup {[method |-> "DELETE", hdr |-> <<>>, body |-> BadBody, query |-> <<>>]}

\* the create calls made so far: those that have appended and those about to
Creates ==
    Len(hist) + Cardinality({q \in Procs : /\ st[q].pc \in {"recv", "built", "loaded"}
                                           /\ st[q].req.method = "POST"
                                           /\ st[q].req.body.ok})

\* a client sends a request to CommentService, which serves it in a goroutine
StoreRequest(p) ==
    /\ st[p].pc = "idle"
    /\ gw[p].pc = "idle"
    /\ \E r \in StoreRequests :
          /\ (r.method = "POST" /\ r.body.ok) => Creates < MaxCreates
          /\ st' = [st EXCEPT ![p] = [StIdle EXCEPT !.pc = "recv", !.req = r]]
    /\ UNCHANGED <<comments, nextID, gw, chk, hist>>

\* the client has the answer and the goroutine ends
StoreReturn(p) ==
    /\ st[p].pc = "done"
    /\ gw[p].pc # "awaitStore"
    /\ st' = [st EXCEPT ![p] = StIdle]
    /\ UNCHANGED <<comments, nextID, gw, chk, hist>>

\* commentsHandler, default case: neither GET nor POST
commentsHandler(p) ==
    /\ st[p].pc = "recv"
    /\ st[p].req.method \notin {"GET", "POST"}
    /\ st' = [st EXCEPT ![p].pc = "done", ![p].status = StatusMethodNotAllowed]
    /\ UNCHANGED <<comments, nextID, gw, chk, hist>>

\* Comment{ID: nextID, NewsID: req.NewsID, ParentID: req.ParentID, Text: req.Text}
NewComment(id, body) ==
    [ID |-> id, NewsID |-> body.news_id, ParentID |-> body.parent_id, Text |-> body.text]

\* createCommentHandler: decode the body, then build the comment (reads nextID)
createDecode(p) ==
    /\ st[p].pc = "recv"
    /\ st[p].req.method = "POST"
    /\ IF ~st[p].req.body.ok
       THEN st' = [st EXCEPT ![p].pc = "done", ![p].status = StatusBadRequest]
       ELSE st' = [st EXCEPT ![p].pc = "built",
                             ![p].comment = NewComment(nextID, st[p].req.body)]
    /\ UNCHANGED <<comments, nextID, gw, chk, hist>>

\* comments = append(comments, comment): the read of comments
createLoad(p) ==
    /\ st[p].pc = "built"
    /\ st' = [st EXCEPT ![p].pc = "loaded", ![p].snap = comments]
    /\ UNCHANGED <<comments, nextID, gw, chk, hist>>

\* comments = append(comments, comment): the write of comments
createStore(p) ==
    /\ st[p].pc = "loaded"
    /\ comments' = Append(st[p].snap, st[p].comment)
    /\ st' = [q \in Procs |->
                IF q = p
                THEN [st[p] EXCEPT !.pc = "stored", !.snap = <<>>, !.h = Len(hist) + 1]
                ELSE IF st[q].pc = "lptr"
                THEN [st[q] EXCEPT !.views = @ \cup {comments'}]
                ELSE st[q]]
    /\ hist' = Append(hist, [body |-> st[p].req.body, done |-> FALSE, id |-> 0])
    /\ UNCHANGED <<nextID, gw, chk>>

\* nextID++: the read of nextID
incrLoad(p) ==
    /\ st[p].pc = "stored"
    /\ st' = [st EXCEPT ![p].pc = "incr", ![p].tmp = nextID]
    /\ UNCHANGED <<comments, nextID, gw, chk, hist>>

\* nextID++: the write of nextID; then the response {"id": comment.ID}
incrStore(p) ==
    /\ st[p].pc = "incr"
    /\ nextID' = st[p].tmp + 1
    /\ st' = [st EXCEPT ![p].pc = "done", ![p].tmp = 0, ![p].h = 0,
                        ![p].comment = NoComment,
                        ![p].status = StatusOK, ![p].id = st[p].comment.ID]
    /\ hist' = [hist EXCEPT ![st[p].h].done = TRUE, ![st[p].h].id = st[p].comment.ID]
    /\ UNCHANGED <<comments, gw, chk>>

RECURSIVE FilterByNews_WrongField(_, _)
\* FilterByNews comparing the comment's own identifier with newsID
FilterByNews_WrongField(cs, newsID) ==
    IF cs = <<>> THEN <<>>
    ELSE (IF Head(cs).ID = newsID THEN <<Head(cs)>> ELSE <<>>)
         \o FilterByNews_WrongField(Tail(cs), newsID)

RECURSIVE FilterByNews(_, _)
\* the loop of getCommentsHandler: append every comment whose NewsID is newsID
FilterByNews(cs, newsID) ==
    IF cs = <<>> THEN <<>>
    ELSE (IF Head(cs).NewsID = newsID THEN <<Head(cs)>> ELSE <<>>)
         \o FilterByNews(Tail(cs), newsID)

\* json.NewEncoder(w).Encode(filteredComments): a nil slice is written as null
EncodeComments(cs) == IF cs = <<>> THEN NilSlice ELSE [null |-> FALSE, elems |-> cs]

\* getCommentsHandler: the answer to GET /comments?news_id=<newsIDStr>
getCommentsResponse(newsIDStr) ==
    LET n == Atoi(newsIDStr)
    IN  IF newsIDStr = <<>> \/ ~n.ok
        THEN [status |-> StatusBadRequest, list |-> NilSlice]
        ELSE [status |-> StatusOK, list |-> EncodeComments(FilterByNews(comments, n.val))]

getCommentsHandler(p) ==
    /\ st[p].pc = "recv"
    /\ st[p].req.method = "GET"
    /\ st' = [st EXCEPT ![p].pc = "done",
                        ![p].status = getCommentsResponse(st[p].req.query).status,
                        ![p].list = getCommentsResponse(st[p].req.query).list,
                        ![p].views = {comments}]
    /\ UNCHANGED <<comments, nextID, gw, chk, hist>>

\* one step of the CommentService goroutine serving p
StoreStep(p) ==
    \/ commentsHandler(p)
    \/ createDecode(p)
    \/ createLoad(p)
    \/ createStore(p)
    \/ incrLoad(p)
    \/ incrStore(p)
    \/ getCommentsHandler(p)

\* CommentService alone, its clients calling it concurrently
NextStore == \E p \in Procs : StoreRequest(p) \/ StoreStep(p) \/ StoreReturn(p)
SpecStore == Init /\ [][NextStore]_vars

\* CommentService called by one client at a time: a request is sent, and
\* served, only while no other request is being served
Quiet(p) == \A q \in Procs \ {p} : st[q].pc = "idle"
NextSeq == \E p \in Procs : Quiet(p) /\ (StoreRequest(p) \/ StoreStep(p) \/ StoreReturn(p))
SpecSeq == Init /\ [][NextSeq]_vars

(***************************************************************************)
(* CommentService with the loop of getCommentsHandler reading the slice    *)
(* comments word by word.  No lock orders `range comments` and             *)
(* `comments = append(comments, comment)`: the loop loads the pointer and   *)
(* the length of the slice in two reads, and an append may come between.   *)
(***************************************************************************)
\* the capacity of a slice of n comments grown by append, one element at a time
Cap(n) == IF n <= 2 THEN n ELSE IF n <= 4 THEN 4 ELSE 8

\* what the loop reads past the end of the array it holds: no comment of the
\* store; k is the number found where the NewsID would be
Stray(k) == [ID |-> 0, NewsID |-> k, ParentID |-> NilInt, Text |-> <<>>]

\* getCommentsHandler up to the read of the pointer of comments
listLoadPtr(p) ==
    /\ st[p].pc = "recv"
    /\ st[p].req.method = "GET"
    /\ IF st[p].req.query = <<>> \/ ~Atoi(st[p].req.query).ok
       THEN st' = [st EXCEPT ![p].pc = "done", ![p].status = StatusBadRequest]
       ELSE st' = [st EXCEPT ![p].pc = "lptr", ![p].snap = comments,
                             ![p].views = {comments}]
    /\ UNCHANGED <<comments, nextID, gw, chk, hist>>

\* getCommentsHandler filtering in the array of comments itself
\* (filteredComments := comments[:0]) and leaving the result there
listLoadLen_InPlace(p) ==
    /\ st[p].pc = "lptr"
    /\ LET key == Atoi(st[p].req.query).val
       IN  /\ st' = [st EXCEPT ![p].pc = "done", ![p].snap = <<>>,
                               ![p].status = StatusOK,
                               ![p].list = EncodeComments(FilterByNews(comments, key))]
           /\ comments' = FilterByNews(comments, key)
    /\ UNCHANGED <<nextID, gw, chk, hist>>

\* getCommentsHandler from the read of the length of comments: the loop over
\* that many elements of the array read before, and the response.  An
\* element past the array's capacity is outside it: with no array (nil) the
\* read panics and the request gets no response; else it is stray memory.
listLoadLen(p) ==
    /\ st[p].pc = "lptr"
    /\ LET arr == st[p].snap
           n == Len(comments)
           key == Atoi(st[p].req.query).val
           outside == {i \in 1..n : i > Len(arr) /\ i > Cap(Len(arr))}
           read(k) == [i \in 1..n |-> IF i <= Len(arr) THEN arr[i]
                                      ELSE IF i \in outside THEN Stray(k)
                                      ELSE comments[i]]
       IN  IF outside # {} /\ arr = <<>>
           THEN st' = [st EXCEPT ![p].pc = "done", ![p].snap = <<>>, ![p].status = 0]
           ELSE \E k \in (IF outside = {} THEN {key} ELSE {key, 0}) :
                   st' = [st EXCEPT ![p].pc = "done", ![p].snap = <<>>,
                                    ![p].status = StatusOK,
                                    ![p].list = EncodeComments(FilterByNews(read(k), key))]
    /\ UNCHANGED <<comments, nextID, gw, chk, hist>>

\* the payload of the i-th of the create calls served before the race
SeedBody(i) ==
    [ok |-> TRUE, news_id |-> IF i % 2 = 1 THEN 1 ELSE 2, parent_id |-> NilInt,
     text |-> TextHello]

\* the store after n create calls served one after the other
InitRace ==
    /\ \E n \in 0..MaxSeed :
          /\ comments = [i \in 1..n |-> NewComment(i, SeedBody(i))]
          /\ nextID = n + 1
          /\ hist = [i \in 1..n |-> [body |-> SeedBody(i), done |-> TRUE, id |-> i]]
    /\ st = [p \in Procs |-> StIdle]
    /\ gw = [p \in Procs |-> GwIdle]
    /\ chk = ChkIdle

\* a client sends a request; each goroutine serves one request
RaceRequest(p) ==
    /\ st[p].pc = "idle"
    /\ \E r \in StoreRequests : st' = [st EXCEPT ![p] = [StIdle EXCEPT !.pc = "recv", !.req = r]]
    /\ UNCHANGED <<comments, nextID, gw, chk, hist>>

NextRace ==
    \E p \in Procs :
        \/ RaceRequest(p)
        \/ commentsHandler(p)
        \/ createDecode(p)
        \/ createLoad(p)
        \/ createStore(p)
        \/ incrLoad(p)
        \/ incrStore(p)
        \/ listLoadPtr(p)
        \/ listLoadLen(p)
SpecRace == InitRace /\ [][NextRace]_vars

(***************************************************************************)
(* APIGateway.                                                             *)
(***************************************************************************)
\* uuid.New().String(): a token no other request has ("u1", "u2", ...)
NewUUID(p) == <<117>> \o Itoa(p)

\* loggingMiddleware generating a request_id whatever the request carries
loggingMiddlewareID_AlwaysNew(hdr, uuid) == uuid

\* loggingMiddleware: the request_id put in the request's context
loggingMiddlewareID(hdr, uuid) == IF hdr = <<>> THEN uuid ELSE hdr

\* getRequestID: the request_id of the request's context
getRequestID(ctx) == ctx.rid

\* the headers of an absent and of a present X-Request-ID
NoHeader == <<>>
HeaderABC == <<97, 98, 99>>
HeaderXYZ == <<120, 121, 122>>

\* the POST /comment (and one GET /comment) requests clients send
CommentRequests ==
    {[route |-> "comment", method |-> "POST", hdr |-> HeaderABC, path |-> <<>>,
      body |-> [ok |-> TRUE, news_id |-> 1, parent_id |-> NilInt, text |-> TextHello]],
     [route |-> "comment", method |-> "POST", hdr |-> NoHeader, path |-> <<>>,
      body |-> [ok |-> TRUE, news_id |-> 2, parent_id |-> <<1>>, text |-> TextHello]],
     [route |-> "comment", method |-> "POST", hdr |-> NoHeader, path |-> <<>>,
      body |-> [ok |-> TRUE, news_id |-> 1, parent_id |-> <<1>>, text |-> TextQwerty123]],
     [route |-> "comment", method |-> "POST", hdr |-> HeaderABC, path |-> <<>>,
      body |-> BadBody],
     [route |-> "comment", method |-> "GET", hdr |-> NoHeader, path |-> <<>>,
      body |-> BadBody]}

\* the GET /news/{id} (and one POST /news/1) requests clients send
NewsRequests ==
    {[route |-> "news", method |-> "GET", hdr |-> NoHeader, path |-> Itoa(1),
      body |-> BadBody],
     [route |-> "news", method |-> "GET", hdr |-> HeaderABC, path |-> Itoa(2),
      body |-> BadBody],
     [route |-> "news", method |-> "GET", hdr |-> HeaderABC, path |-> <<97, 98, 99>>,
      body |-> BadBody],
     [route |-> "news", method |-> "GET", hdr |-> NoHeader, path |-> <<>>,
      body |-> BadBody],
     [route |-> "news", method |-> "POST", hdr |-> NoHeader, path |-> Itoa(1),
      body |-> BadBody]}

\* loggingMiddleware: the goroutine of p as the handler is called with request r
loggingMiddleware(p, r) ==
    [GwIdle EXCEPT !.pc = "handler", !.req = r,
                   !.rid = loggingMiddlewareID(r.hdr, NewUUID(p))]

\* http.Error(w, msg, status) without the return that follows it
Respond_NoReturn(g, status, msg) == [g EXCEPT !.status = status, !.msg = msg]

\* the terminal response http.Error(w, msg, status)
Respond(g, status, msg) == [g EXCEPT !.pc = "done", !.status = status, !.msg = msg]

\* commentHandler accepting a request whatever its body decodes to
commentHandlerReceived_NoDecodeCheck(g) ==
    IF g.req.method # "POST"
    THEN Respond(g, StatusMethodNotAllowed, "Method not allowed")
    ELSE [g EXCEPT !.pc = "filtering"]

\* commentHandler refusing a request that has no X-Request-ID
commentHandlerReceived_RequireHeader(g) ==
    IF g.req.method # "POST"
    THEN Respond(g, StatusMethodNotAllowed, "Method not allowed")
    ELSE IF ~g.req.body.ok \/ g.req.hdr = <<>>
    THEN Respond(g, StatusBadRequest, "Invalid JSON")
    ELSE [g EXCEPT !.pc = "filtering"]

\* commentHandler, Received: the method and the body of the request
commentHandlerReceived(g) ==
    IF g.req.method # "POST"
    THEN Respond(g, StatusMethodNotAllowed, "Method not allowed")
    ELSE IF ~g.req.body.ok
    THEN Respond(g, StatusBadRequest, "Invalid JSON")
    ELSE [g EXCEPT !.pc = "filtering"]

\* a POST /comment request of the set rs arrives and is handled up to the
\* call of CensorService
commentHandlerOf(p, rs) ==
    /\ gw[p].pc = "idle"
    /\ st[p].pc = "idle"
    /\ \E r \in rs :
          gw' = [gw EXCEPT ![p] = commentHandlerReceived(loggingMiddleware(p, r))]
    /\ UNCHANGED <<comments, nextID, st, chk, hist>>

commentHandler(p) == commentHandlerOf(p, CommentRequests)

\* what client.Do returns for a call the server was not reached by, or whose
\* answer did not come within the 10 s of the client's timeout
NoResponse == [err |-> TRUE, status |-> 0]
\* statuses a server other than the intended one may answer with
OtherStatuses == {StatusInternalServerError}

\* an answer as the gateway gets it: what client.Do returned, whether the
\* body decodes, and the body
Got(resp, decodes, body) ==
    [err |-> resp.err, status |-> resp.status, decodes |-> decodes, body |-> body]

\* validateCommentWithCensorService: the JSON payload {text}
CheckPayload(comment) == [text |-> comment.text]

\* the answers client.Do may return for the /check call carrying text
CheckResponses(text) ==
    {[kind |-> "unreachable", resp |-> NoResponse],
     [kind |-> "timeout", resp |-> NoResponse],
     [kind |-> "served",
      resp |-> [err |-> FALSE,
                status |-> checkHandler([method |-> "POST", ok |-> TRUE, text |-> text])]]}
    \cup {[kind |-> "other", resp |-> [err |-> FALSE, status |-> s]] : s \in OtherStatuses}

\* validateCommentWithCensorService without the check for an unexpected status
validateCommentWithCensorService_Only400(resp) ==
    IF resp.err THEN TRUE
    ELSE IF resp.status = StatusBadRequest THEN TRUE
    ELSE FALSE

\* validateCommentWithCensorService taking every answer but an error for acceptance
validateCommentWithCensorService_AnyAnswer(resp) == resp.err

\* validateCommentWithCensorService: TRUE when it returns an error
validateCommentWithCensorService(resp) ==
    IF resp.err THEN TRUE
    ELSE IF resp.status = StatusBadRequest THEN TRUE
    ELSE IF resp.status # StatusOK THEN TRUE
    ELSE FALSE

\* commentHandler, Filtering: the call of CensorService and what follows it
commentHandlerFiltering(p) ==
    /\ gw[p].pc = "filtering"
    /\ \E c \in CheckResponses(CheckPayload(gw[p].req.body).text) :
          LET g == [gw[p] EXCEPT !.calls = Append(@, [svc |-> "check",
                                                      rid |-> getRequestID(gw[p]),
                                                      payload |-> CheckPayload(gw[p].req.body)]),
                                 !.got = Append(@, Got(c.resp, FALSE, NilSlice)),
                                 !.filter = c.kind, !.fstatus = c.resp.status]
          IN  gw' = [gw EXCEPT ![p] =
                        IF validateCommentWithCensorService(c.resp)
                        THEN Respond(g, StatusBadRequest, "Comment contains prohibited content")
                        ELSE [g EXCEPT !.pc = "persisting"]]
    /\ UNCHANGED <<comments, nextID, st, chk, hist>>

\* saveCommentToService: the JSON payload {news_id, parent_id, text}
SavePayload(comment) ==
    [ok |-> TRUE, news_id |-> comment.news_id, parent_id |-> comment.parent_id,
     text |-> comment.text]

\* saveCommentToService taking every answer but an error for success
saveCommentToService_AnyAnswer(resp) == resp.err

\* saveCommentToService: TRUE when it returns an error
saveCommentToService(resp) ==
    IF resp.err THEN TRUE
    ELSE IF resp.status # StatusOK /\ resp.status # 201 THEN TRUE
    ELSE FALSE

\* commentHandler answering with the news key of the comment as its id
commentHandlerPersisted_NewsID(g, resp) ==
    IF saveCommentToService(resp)
    THEN Respond(g, StatusInternalServerError, "Failed to save comment")
    ELSE [g EXCEPT !.pc = "done", !.status = StatusOK,
                   !.msg = "Comment created successfully", !.id = g.req.body.news_id]

\* commentHandler calling saveCommentToService again when it failed
commentHandlerPersisted_Retry(g, resp) ==
    IF saveCommentToService(resp)
    THEN [g EXCEPT !.pc = "persisting"]
    ELSE [g EXCEPT !.pc = "done", !.status = StatusOK,
                   !.msg = "Comment created successfully", !.id = 1]

\* commentHandler, Persisting and Completed: the end of the request given
\* the answer of the create call
commentHandlerPersisted(g, resp) ==
    IF saveCommentToService(resp)
    THEN Respond(g, StatusInternalServerError, "Failed to save comment")
    ELSE [g EXCEPT !.pc = "done", !.status = StatusOK,
                   !.msg = "Comment created successfully", !.id = 1]

\* saveCommentToService sends POST /comments; CommentService is not reached,
\* or another server answers, or CommentService starts serving the call
commentHandlerPersisting(p) ==
    /\ gw[p].pc = "persisting"
    /\ LET g == [gw[p] EXCEPT !.calls = Append(@, [svc |-> "create",
                                                   rid |-> getRequestID(gw[p]),
                                                   payload |-> SavePayload(gw[p].req.body)])]
       IN  \/ /\ gw' = [gw EXCEPT ![p] =
                          commentHandlerPersisted(
                              [g EXCEPT !.store = "unreachable",
                                        !.got = Append(@, Got(NoResponse, FALSE, NilSlice))],
                              NoResponse)]
              /\ st' = st
           \/ /\ \E s \in OtherStatuses :
                    gw' = [gw EXCEPT ![p] =
                             commentHandlerPersisted(
                                 [g EXCEPT !.store = "other",
                                           !.got = Append(@, Got([err |-> FALSE, status |-> s],
                                                                 FALSE, NilSlice))],
                                 [err |-> FALSE, status |-> s])]
              /\ st' = st
           \/ /\ gw' = [gw EXCEPT ![p] = [g EXCEPT !.pc = "awaitStore"]]
              /\ st' = [st EXCEPT ![p] =
                          [StIdle EXCEPT !.pc = "recv",
                                         !.req = [method |-> "POST",
                                                  hdr |-> getRequestID(gw[p]),
                                                  body |-> g.calls[Len(g.calls)].payload,
                                                  query |-> <<>>]]]
    /\ UNCHANGED <<comments, nextID, chk, hist>>

\* the answer of CommentService arrives
commentHandlerSaved(p) ==
    /\ gw[p].pc = "awaitStore"
    /\ st[p].pc = "done"
    /\ gw' = [gw EXCEPT ![p] =
                commentHandlerPersisted(
                    [gw[p] EXCEPT !.store = "served",
                                  !.got = Append(@, Got([err |-> FALSE, status |-> st[p].status],
                                                        FALSE, NilSlice))],
                    [err |-> FALSE, status |-> st[p].status])]
    /\ st' = [st EXCEPT ![p] = StIdle]
    /\ UNCHANGED <<comments, nextID, chk, hist>>

\* the client's timeout ends the call before the answer arrives; CommentService
\* goes on serving it
commentHandlerSaveTimeout(p) ==
    /\ gw[p].pc = "awaitStore"
    /\ gw' = [gw EXCEPT ![p] =
                commentHandlerPersisted(
                    [gw[p] EXCEPT !.store = "timeout",
                                  !.got = Append(@, Got(NoResponse, FALSE, NilSlice))],
                    NoResponse)]
    /\ UNCHANGED <<comments, nextID, st, chk, hist>>

\* newsDetailHandler up to the call of getCommentsForNews
newsDetailHandlerReceived(g) ==
    IF g.req.method # "GET"
    THEN Respond(g, StatusMethodNotAllowed, "Method not allowed")
    ELSE IF g.req.path = <<>>
    THEN Respond(g, StatusBadRequest, "News ID is required")
    ELSE IF ~Atoi(g.req.path).ok
    THEN Respond(g, StatusBadRequest, "Invalid news ID")
    ELSE [g EXCEPT !.pc = "listing", !.newsID = Atoi(g.req.path).val]

\* a GET /news/{id} request of the set rs arrives and is handled up to the
\* call of CommentService
newsDetailHandlerOf(p, rs) ==
    /\ gw[p].pc = "idle"
    /\ st[p].pc = "idle"
    /\ \E r \in rs :
          gw' = [gw EXCEPT ![p] = newsDetailHandlerReceived(loggingMiddleware(p, r))]
    /\ UNCHANGED <<comments, nextID, st, chk, hist>>

newsDetailHandler(p) == newsDetailHandlerOf(p, NewsRequests)

\* json.NewDecoder(resp.Body).Decode(&comments): null leaves the slice nil
DecodeComments(body) == IF body.null THEN NilSlice ELSE [null |-> FALSE, elems |-> body.elems]

\* getCommentsForNews: its results (comments, err) given what client.Do
\* returned; decodes tells whether the body is the JSON of a []Comment
getCommentsForNews(resp, decodes, body) ==
    IF resp.err THEN [err |-> TRUE, comments |-> NilSlice]
    ELSE IF resp.status # StatusOK THEN [err |-> TRUE, comments |-> NilSlice]
    ELSE IF ~decodes THEN [err |-> TRUE, comments |-> NilSlice]
    ELSE [err |-> FALSE, comments |-> DecodeComments(body)]

\* newsDetailHandler failing the request when the comments cannot be fetched
newsDetailHandlerListed_FailOnError(g, res) ==
    IF res.err
    THEN Respond(g, StatusInternalServerError, "Failed to fetch comments")
    ELSE [g EXCEPT !.pc = "done", !.status = StatusOK, !.id = g.newsID,
                   !.comments = res.comments]

\* newsDetailHandler after getCommentsForNews: the response
newsDetailHandlerListed(g, res) ==
    [g EXCEPT !.pc = "done", !.status = StatusOK, !.id = g.newsID,
              !.comments = IF res.err THEN EmptySlice ELSE res.comments]

\* the answers client.Do may return for GET /comments?news_id=<newsID>, with
\* whether the body decodes: CommentService is not reached, or its answer is
\* late, or another server answers, or the body is no JSON array, or
\* CommentService answers
ListResponses(newsID) ==
    {[kind |-> "unreachable", resp |-> NoResponse, decodes |-> FALSE, body |-> NilSlice],
     [kind |-> "timeout", resp |-> NoResponse, decodes |-> FALSE, body |-> NilSlice],
     [kind |-> "undecodable", resp |-> [err |-> FALSE, status |-> StatusOK],
      decodes |-> FALSE, body |-> NilSlice],
     [kind |-> "served",
      resp |-> [err |-> FALSE, status |-> getCommentsResponse(Itoa(newsID)).status],
      decodes |-> TRUE, body |-> getCommentsResponse(Itoa(newsID)).list]}
    \cup {[kind |-> "other", resp |-> [err |-> FALSE, status |-> s],
           decodes |-> FALSE, body |-> NilSlice] : s \in OtherStatuses}

\* newsDetailHandler: the call of getCommentsForNews and the response
newsDetailHandlerListing(p) ==
    /\ gw[p].pc = "listing"
    /\ \E c \in ListResponses(gw[p].newsID) :
          LET g == [gw[p] EXCEPT !.calls = Append(@, [svc |-> "list",
                                                      rid |-> getRequestID(gw[p]),
                                                      payload |-> [news_id |-> gw[p].newsID]]),
                                 !.got = Append(@, Got(c.resp, c.decodes, c.body)),
                                 !.list = c.kind]
          IN  gw' = [gw EXCEPT ![p] =
                        newsDetailHandlerListed(g,
                            getCommentsForNews(c.resp, c.decodes, c.body))]
    /\ UNCHANGED <<comments, nextID, st, chk, hist>>

\* one step of the gateway goroutine serving p
GatewayStep(p) ==
    \/ commentHandler(p)
    \/ commentHandlerFiltering(p)
    \/ commentHandlerPersisting(p)
    \/ commentHandlerSaved(p)
    \/ commentHandlerSaveTimeout(p)
    \/ newsDetailHandler(p)
    \/ newsDetailHandlerListing(p)

\* one step of the CommentService goroutine serving a call of the gateway
CalledStoreStep(p) ==
    \/ createDecode(p)
    \/ createLoad(p)
    \/ createStore(p)
    \/ incrLoad(p)
    \/ incrStore(p)
    \/ StoreReturn(p)

\* the gateway, with CensorService and CommentService behind it
Next == \E p \in Procs : GatewayStep(p) \/ CalledStoreStep(p)
Spec == Init /\ [][Next]_vars

\* every call of the gateway ends: client.Do returns with an answer, or with
\* an error once the 10 s of http.Client{Timeout} are over, and the goroutine
\* of the request goes on
Fair(p) ==
    /\ WF_vars(commentHandlerFiltering(p))
    /\ WF_vars(commentHandlerPersisting(p))
    /\ WF_vars(commentHandlerSaved(p) \/ commentHandlerSaveTimeout(p))

\* the gateway serving POST /comment requests, under that condition
LiveCommentRequests ==
    {r \in CommentRequests : r.method = "POST" /\ r.hdr = HeaderABC}
    \cup {r \in CommentRequests : r.body.ok /\ r.body.text = TextQwerty123}
NextLive ==
    \E p \in Procs :
        \/ commentHandlerOf(p, LiveCommentRequests)
        \/ commentHandlerFiltering(p)
        \/ commentHandlerPersisting(p)
        \/ commentHandlerSaved(p)
        \/ commentHandlerSaveTimeout(p)
        \/ CalledStoreStep(p)
SpecLive == Init /\ [][NextLive]_vars /\ \A p \in Procs : Fair(p)

\* the gateway serving requests that are equal but for their X-Request-ID
Headers == {NoHeader, HeaderABC, HeaderXYZ}
PairCommentRequests ==
    {[route |-> "comment", method |-> "POST", hdr |-> h, path |-> <<>>,
      body |-> [ok |-> TRUE, news_id |-> 1, parent_id |-> NilInt, text |-> t]] :
        h \in {NoHeader, HeaderABC}, t \in {TextHello, TextQwerty123}}
PairNewsRequests ==
    {[route |-> "news", method |-> "GET", hdr |-> h, path |-> Itoa(1), body |-> BadBody] :
        h \in Headers}

NextPair ==
    \E p \in Procs :
        \/ commentHandlerOf(p, PairCommentRequests)
        \/ commentHandlerFiltering(p)
        \/ commentHandlerPersisting(p)
        \/ commentHandlerSaved(p)
        \/ commentHandlerSaveTimeout(p)
        \/ newsDetailHandlerOf(p, PairNewsRequests)
        \/ newsDetailHandlerListing(p)
        \/ CalledStoreStep(p)
SpecPair == Init /\ [][NextPair]_vars

(***************************************************************************)
(* CensorService alone: one /check request, over many texts.               *)
(***************************************************************************)
\* the upper-case letter of a lower-case Latin or Cyrillic letter
Upper(cp) ==
    IF (cp >= 97 /\ cp <= 122) \/ (cp >= 1072 /\ cp <= 1103) THEN cp - 32 ELSE cp
\* the lower-case letter of an upper-case Latin or Cyrillic letter
Lower(cp) ==
    IF (cp >= 65 /\ cp <= 90) \/ (cp >= 1040 /\ cp <= 1071) THEN cp + 32 ELSE cp

Words == {WordQwerty, WordJcuken, WordZxvbnm}

\* the word w with the letters at the positions of m in upper case
Cased(w, m) == [i \in 1..Len(w) |-> IF i \in m THEN Upper(w[i]) ELSE w[i]]
\* the word w without its i-th letter
Without(w, i) == SubSeq(w, 1, i - 1) \o SubSeq(w, i + 1, Len(w))

\* 'x' and '1', and the runs of them put around a word
PadChars == {120, 49}
Pads == UNION {[1..n -> PadChars] : n \in 0..MaxPad}

\* the texts checked: every casing of every word, and every word with a
\* letter missing, inside every pair of pads
FilterTexts ==
    {pre \o Cased(w, m) \o suf :
        pre \in Pads, suf \in Pads, w \in Words, m \in SUBSET (1..6)}
    \cup {pre \o Without(w, i) \o suf :
        pre \in Pads, suf \in Pads, w \in Words, i \in 1..6}

\* the /check requests clients send
CheckRequests ==
    {[cps |-> t, req |-> [method |-> "POST", ok |-> TRUE, text |-> UTF8(t)]] :
        t \in FilterTexts}
    \cup {[cps |-> <<>>, req |-> [method |-> "POST", ok |-> FALSE, text |-> <<>>]],
          [cps |-> <<>>, req |-> [method |-> "GET", ok |-> FALSE, text |-> <<>>]]}

InitFilter ==
    /\ comments = <<>>
    /\ nextID = 1
    /\ st = [p \in Procs |-> StIdle]
    /\ gw = [p \in Procs |-> GwIdle]
    /\ hist = <<>>
    /\ \E c \in CheckRequests :
          chk = [pc |-> "recv", cps |-> c.cps, req |-> c.req, status |-> 0]

\* CensorService answers the request
CheckServe ==
    /\ chk.pc = "recv"
    /\ chk' = [chk EXCEPT !.pc = "done", !.status = checkHandler(chk.req)]
    /\ UNCHANGED <<comments, nextID, st, gw, hist>>

NextFilter == CheckServe
SpecFilter == InitFilter /\ [][NextFilter]_vars

(***************************************************************************)
(* Claims.                                                                 *)
(***************************************************************************)
\* the text cps contains a denylisted term, in some combination of upper- and
\* lower-case letters, as a run of consecutive characters
ContainsTermAnyCase(cps) ==
    \E w \in Words :
        \E i \in 0..(Len(cps) - Len(w)) :
            \A j \in 1..Len(w) : Lower(cps[i + j]) = Lower(w[j])

\* C5: ContentFilter check answers 400 exactly for the texts that contain a
\* denylisted term in some letter case, and 200 for every other text.
C5_RejectsIffContainsTerm ==
    (chk.pc = "done" /\ chk.req.method = "POST" /\ chk.req.ok) =>
        /\ ContainsTermAnyCase(chk.cps) => chk.status = StatusBadRequest
        /\ ~ContainsTermAnyCase(chk.cps) => chk.status = StatusOK

\* every create call has returned
AllCreated == Creates = Len(hist) /\ \A i \in 1..Len(hist) : hist[i].done

\* C1: once N concurrent create calls on an empty store have returned, the
\* identifiers they returned are exactly 1..N, no two of them equal.
C1_IdsAreExactly1toN ==
    AllCreated =>
        /\ \A i, j \in 1..Len(hist) : i # j => hist[i].id # hist[j].id
        /\ {hist[i].id : i \in 1..Len(hist)} = 1..Len(hist)

\* C2: once N concurrent create calls have returned success, the comment
\* sequence holds exactly N records, one for each call.
C2_NoLostWrite ==
    AllCreated =>
        /\ Len(comments) = Len(hist)
        /\ \A i \in 1..Len(hist) :
              \E k \in 1..Len(comments) :
                  comments[k] = NewComment(hist[i].id, hist[i].body)

\* the comments created with news key k, in the order of their creation, each
\* with the identifier its create call returned
CreatedWithKey(k) ==
    LET sel == SelectSeq(hist, LAMBDA c : c.body.news_id = k)
    IN  [j \in 1..Len(sel) |-> NewComment(sel[j].id, sel[j].body)]

\* the goroutine of p answers a GET /comments request in this step
ListStep(p) == st[p].pc = "recv" /\ st[p].req.method = "GET" /\ st'[p].pc = "done"

\* C6: after any sequence of create calls, listByNews(k) answers 200 with
\* exactly the comments created with news key k, each once, in creation
\* order, whatever comments other keys have; with no match the answer is
\* still 200, with no element.
C6_ListByNewsKey ==
    [][\A p \in Procs :
          (ListStep(p) /\ st[p].req.query # <<>> /\ Atoi(st[p].req.query).ok) =>
              /\ st'[p].status = StatusOK
              /\ st'[p].list.elems = CreatedWithKey(Atoi(st[p].req.query).val)
              /\ st'[p].list.null = (CreatedWithKey(Atoi(st[p].req.query).val) = <<>>)]_vars

\* a list call returned two comments of one key, created before and after a
\* comment of another key
C6_Witness ==
    \E p \in Procs :
        /\ st[p].pc = "done" /\ st[p].req.method = "GET" /\ st[p].status = StatusOK
        /\ Len(st[p].list.elems) = 2
        /\ Len(hist) = 3
        /\ hist[2].body.news_id # hist[1].body.news_id
        /\ hist[3].body.news_id = hist[1].body.news_id
        /\ st[p].list.elems[1].ID = 1 /\ st[p].list.elems[2].ID = 3

(***************************************************************************)
(* Claims about the gateway.                                               *)
(***************************************************************************)
\* the number of calls of the service svc the gateway made for request p
Calls(p, svc) == Cardinality({i \in 1..Len(gw[p].calls) : gw[p].calls[i].svc = svc})

IsComment(p) == gw[p].req.route = "comment" /\ gw[p].req.method = "POST"
\* the /check call of p has ended, and how
FilterAccepted(p) == gw[p].filter = "served" /\ gw[p].fstatus = StatusOK
FilterRefused(p) == gw[p].filter # "" /\ ~FilterAccepted(p)

\* C3: CommentStore create is called for a POST /comment request only after
\* the ContentFilter check of that request answered 200; when the filter
\* rejects the text or the check fails otherwise, the request makes no call
\* of CommentStore.
C3_StoreOnlyAfterAcceptance ==
    \A p \in Procs :
        /\ (Calls(p, "create") > 0 \/ st[p].pc # "idle") =>
              /\ FilterAccepted(p)
              /\ gw[p].calls[1].svc = "check"
        /\ FilterRefused(p) => (Calls(p, "create") = 0 /\ st[p].pc = "idle")

\* one request was accepted and reached CommentStore, another was rejected by
\* the filter and ended without a call of CommentStore
C3_Witness ==
    \E p, q \in Procs :
        /\ FilterAccepted(p) /\ Calls(p, "create") = 1 /\ gw[p].status = StatusOK
        /\ gw[q].filter = "served" /\ gw[q].fstatus = StatusBadRequest
        /\ gw[q].pc = "done" /\ Calls(q, "create") = 0

IsNewsRead(p) ==
    /\ gw[p].req.route = "news" /\ gw[p].req.method = "GET"
    /\ gw[p].req.path # <<>> /\ Atoi(gw[p].req.path).ok
ListFailed(p) == gw[p].list \in {"unreachable", "timeout", "other", "undecodable"}

\* C4: GET /news/{id} with an integer id always ends with 200 and the news
\* item; when the CommentStore list call fails (unreachable, timeout, a status
\* other than 200, an undecodable body) the comments of the response are the
\* empty list.
C4_NewsReadSurvivesListFailure ==
    \A p \in Procs :
        (IsNewsRead(p) /\ gw[p].pc # "idle") =>
            /\ gw[p].pc = "done" => (gw[p].status = StatusOK
                                     /\ gw[p].id = Atoi(gw[p].req.path).val)
            /\ ListFailed(p) => (gw[p].pc = "done" /\ gw[p].status = StatusOK
                                 /\ gw[p].comments = EmptySlice)

\* a news read answered 200 with no comment, its list call having timed out,
\* while CommentStore holds a comment of that news item
C4_Witness ==
    \E p \in Procs :
        /\ IsNewsRead(p) /\ gw[p].pc = "done" /\ gw[p].list = "timeout"
        /\ gw[p].status = StatusOK /\ gw[p].comments = EmptySlice
        /\ \E k \in 1..Len(comments) : comments[k].NewsID = gw[p].newsID

StoreFailed(p) ==
    \/ gw[p].store \in {"unreachable", "timeout", "other"}
    \/ gw[p].store = "served" /\ gw[p].status # StatusOK

\* C7: when the CommentStore create call of an accepted POST /comment request
\* fails (network error, timeout, a status other than 200/201), the request
\* ends with 500, and the gateway has called CommentStore once, never again.
C7_StoreFailureIsInternalError ==
    \A p \in Procs :
        StoreFailed(p) =>
            /\ gw[p].pc = "done"
            /\ gw[p].status = StatusInternalServerError
            /\ Calls(p, "create") = 1
            /\ gw[p].calls[Len(gw[p].calls)].svc = "create"

\* a request ended with 500 on a timeout although CommentStore has stored
\* its comment, which stays stored
C7_Witness ==
    \E p \in Procs :
        /\ gw[p].store = "timeout" /\ gw[p].status = StatusInternalServerError
        /\ st[p].pc = "idle" /\ Calls(p, "create") = 1
        /\ \E k \in 1..Len(comments) :
              /\ comments[k].NewsID = gw[p].req.body.news_id
              /\ comments[k].ParentID = gw[p].req.body.parent_id

\* C8: every outcome of the ContentFilter call other than acceptance (a 400
\* rejection, a network or timeout failure, another status) ends the
\* POST /comment request with one and the same 400 response.
C8_FilterFailureIsBadRequest ==
    \A p \in Procs :
        FilterRefused(p) =>
            /\ gw[p].pc = "done"
            /\ gw[p].status = StatusBadRequest
            /\ gw[p].msg = "Comment contains prohibited content"

\* a request whose text was rejected and a request whose filter call got no
\* answer ended with equal responses
C8_Witness ==
    \E p, q \in Procs :
        /\ gw[p].filter = "served" /\ gw[p].fstatus = StatusBadRequest
        /\ gw[q].filter = "unreachable"
        /\ gw[p].pc = "done" /\ gw[q].pc = "done"
        /\ gw[p].status = gw[q].status /\ gw[p].msg = gw[q].msg

\* C9: every downstream call of a gateway request carries one X-Request-ID
\* value: the inbound header when the request has one, else the token the
\* gateway generated for it; it is never empty and the same in all calls.
C9_OneRequestID ==
    \A p \in Procs :
        \A i \in 1..Len(gw[p].calls) :
            /\ gw[p].calls[i].rid # <<>>
            /\ gw[p].calls[i].rid =
                  (IF gw[p].req.hdr # <<>> THEN gw[p].req.hdr ELSE NewUUID(p))
            /\ gw[p].calls[i].rid = gw[p].calls[1].rid
            /\ (gw[p].calls[i].svc = "create" /\ st[p].pc # "idle") =>
                  st[p].req.hdr = gw[p].calls[i].rid

\* a request without X-Request-ID called the filter and the store with the
\* token generated for it, and a request with the header called them with it
C9_Witness ==
    \E p, q \in Procs :
        /\ gw[p].req.hdr = <<>> /\ Len(gw[p].calls) = 2
        /\ gw[p].calls[1].svc = "check" /\ gw[p].calls[2].svc = "create"
        /\ gw[p].calls[1].rid = NewUUID(p) /\ gw[p].calls[2].rid = NewUUID(p)
        /\ gw[q].req.hdr = HeaderABC /\ Len(gw[q].calls) = 2
        /\ gw[q].calls[1].rid = HeaderABC /\ gw[q].calls[2].rid = HeaderABC

\* C10: a POST /comment request whose body does not decode ends with 400
\* at once, with no call of ContentFilter or CommentStore, and the comment
\* store as it was.
C10_BadPayloadIsBadRequest ==
    [][\A p \in Procs :
          (/\ gw[p].pc = "idle" /\ gw'[p].pc # "idle"
           /\ gw'[p].req.route = "comment" /\ gw'[p].req.method = "POST"
           /\ ~gw'[p].req.body.ok) =>
              /\ gw'[p].pc = "done"
              /\ gw'[p].status = StatusBadRequest
              /\ gw'[p].calls = <<>>
              /\ st' = st /\ comments' = comments /\ nextID' = nextID]_vars

\* a request with an undecodable body ended with 400 and without a call,
\* beside a store that holds a comment
C10_Witness ==
    \E p \in Procs :
        /\ IsComment(p) /\ ~gw[p].req.body.ok /\ gw[p].pc = "done"
        /\ gw[p].status = StatusBadRequest /\ gw[p].calls = <<>>
        /\ st[p].pc = "idle" /\ Len(comments) = 1

(***************************************************************************)
(* Claims about CommentService, continued.                                 *)
(***************************************************************************)
\* C11: every create call whose payload decodes succeeds, whatever news key
\* and parent key it carries: it appends one record with the request's news
\* key, parent key and text and the next identifier in sequence, and answers
\* 200 with the identifier of that record.
C11_CreateAppendsNextRecord ==
    [][\A p \in Procs :
          /\ (st[p].pc = "recv" /\ st[p].req.method = "POST" /\ st[p].req.body.ok
              /\ st'[p].pc # "recv") => st'[p].pc = "built"
          /\ (st[p].pc = "loaded" /\ st'[p].pc = "stored") =>
                comments' = Append(comments,
                                   [ID |-> Len(hist) + 1,
                                    NewsID |-> st[p].req.body.news_id,
                                    ParentID |-> st[p].req.body.parent_id,
                                    Text |-> st[p].req.body.text])
          /\ (st[p].pc = "incr" /\ st'[p].pc = "done") =>
                /\ st'[p].status = StatusOK
                /\ st'[p].id = st[p].h]_vars

(***************************************************************************)
(* Claims about the gateway, continued.                                    *)
(***************************************************************************)
\* C12: a POST /comment request that succeeds is answered with the fixed
\* id 1 and the fixed message, whatever identifier CommentStore gave the
\* comment.
C12_SuccessIdIsPlaceholder ==
    \A p \in Procs :
        (IsComment(p) /\ gw[p].pc = "done" /\ gw[p].status = StatusOK) =>
            /\ gw[p].id = 1
            /\ gw[p].msg = "Comment created successfully"

\* a request was answered with id 1 although CommentStore returned 2 as the
\* identifier of its comment
C12_Witness ==
    \E p \in Procs :
        /\ IsComment(p) /\ gw[p].pc = "done" /\ gw[p].status = StatusOK /\ gw[p].id = 1
        /\ \E i \in 1..Len(hist) :
              /\ hist[i].done /\ hist[i].id = 2
              /\ hist[i].body = SavePayload(gw[p].req.body)
        /\ \A i \in 1..Len(hist) :
              hist[i].body = SavePayload(gw[p].req.body) => hist[i].id # 1

\* C13: the gateway never repeats a downstream call: for one inbound request
\* it calls ContentFilter check at most once, CommentStore create at most
\* once and CommentStore list at most once.
C13_NoRetry ==
    \A p \in Procs :
        /\ Calls(p, "check") <= 1
        /\ Calls(p, "create") <= 1
        /\ Calls(p, "list") <= 1

\* a comment request ended after one failed create call, and a news read
\* ended after one failed list call
C13_Witness ==
    \E p, q \in Procs :
        /\ IsComment(p) /\ gw[p].pc = "done" /\ gw[p].store = "unreachable"
        /\ Calls(p, "check") = 1 /\ Calls(p, "create") = 1
        /\ IsNewsRead(q) /\ gw[q].pc = "done" /\ gw[q].list = "unreachable"
        /\ Calls(q, "list") = 1

(***************************************************************************)
(* Claims about CommentService under concurrent calls.                     *)
(***************************************************************************)
\* C14: a list call served while create calls are served never sees a
\* half-made append: it answers 200 with the comments of its news key in
\* the comment sequence as that sequence stood at some moment of the call.
C14_ListSeesWholeSequence ==
    \A p \in Procs :
        (/\ st[p].pc = "done" /\ st[p].req.method = "GET"
         /\ st[p].req.query # <<>> /\ Atoi(st[p].req.query).ok) =>
            /\ st[p].status = StatusOK
            /\ \E v \in st[p].views :
                  st[p].list = EncodeComments(FilterByNews(v, Atoi(st[p].req.query).val))

\* the sequence s is the beginning of the sequence t
IsPrefix(s, t) == Len(s) <= Len(t) /\ SubSeq(t, 1, Len(s)) = s

\* C15: the comment sequence only grows at its end, also while create calls
\* are served concurrently: what it was in a state is a prefix of what it is
\* in every later state.
C15_AppendOnly == [][IsPrefix(comments, comments')]_vars

(***************************************************************************)
(* Claims about the gateway: the correlation ID, termination, success.     *)
(***************************************************************************)
\* the requests of p and q are equal but for their X-Request-ID headers
SameButHeader(p, q) ==
    /\ gw[p].req.hdr # gw[q].req.hdr
    /\ [gw[p].req EXCEPT !.hdr = <<>>] = [gw[q].req EXCEPT !.hdr = <<>>]

\* the downstream services answered the calls of p and of q alike, as far as
\* both called them
SameAnswers(p, q) ==
    \A i \in 1..Len(gw[p].got) : i <= Len(gw[q].got) => gw[p].got[i] = gw[q].got[i]

\* C16: two POST /comment (or GET /news/{id}) requests that differ only in
\* their X-Request-ID header and get the same answers from the downstream
\* services make the same downstream calls, in the same order and with the
\* same payloads, and end with the same status and body.
C16_RequestIDNotControlFlow ==
    \A p, q \in Procs :
        (/\ gw[p].pc = "done" /\ gw[q].pc = "done"
         /\ SameButHeader(p, q) /\ SameAnswers(p, q)) =>
            /\ Len(gw[p].calls) = Len(gw[q].calls)
            /\ \A i \in 1..Len(gw[p].calls) :
                  /\ gw[p].calls[i].svc = gw[q].calls[i].svc
                  /\ gw[p].calls[i].payload = gw[q].calls[i].payload
            /\ gw[p].status = gw[q].status
            /\ gw[p].msg = gw[q].msg
            /\ gw[p].id = gw[q].id
            /\ gw[p].comments = gw[q].comments

\* a request without X-Request-ID and a request with one, else equal, were
\* both accepted and stored, through the same two calls, and answered alike
C16_Witness ==
    \E p, q \in Procs :
        /\ gw[p].pc = "done" /\ gw[q].pc = "done"
        /\ gw[p].req.hdr = NoHeader /\ gw[q].req.hdr = HeaderABC
        /\ SameButHeader(p, q) /\ SameAnswers(p, q)
        /\ IsComment(p) /\ Len(gw[p].calls) = 2 /\ Len(gw[q].calls) = 2
        /\ gw[p].calls[2].payload = gw[q].calls[2].payload
        /\ gw[p].calls[2].rid # gw[q].calls[2].rid
        /\ gw[p].status = StatusOK /\ gw[q].status = StatusOK

\* the request of p is in Filtering or Persisting
InFlight(p) == IsComment(p) /\ gw[p].pc \in {"filtering", "persisting", "awaitStore"}
\* the request of p has its terminal response: BadRequest, InternalError or
\* Completed
Terminal(p) ==
    /\ gw[p].pc = "done"
    /\ gw[p].status \in {StatusBadRequest, StatusInternalServerError, StatusOK}

\* C17: every POST /comment request in Filtering or Persisting eventually
\* gets a terminal response (400, 500 or 200), its downstream calls ending by
\* an answer or a timeout; and once a request has a response, nothing more
\* happens to it: no second response, no further call.
C17_OneTerminalOutcome ==
    /\ \A p \in Procs : InFlight(p) ~> Terminal(p)
    /\ [][\A p \in Procs : gw[p].status # 0 => gw'[p] = gw[p]]_vars

\* a request ended with 500 on the timeout of its create call, while
\* CommentStore is still serving that call
C17_Witness ==
    \E p \in Procs :
        /\ IsComment(p) /\ Terminal(p) /\ gw[p].store = "timeout"
        /\ st[p].pc \notin {"idle", "done"}

\* C18: whenever the gateway answers a POST /comment request with success,
\* ContentFilter accepted the text and CommentStore acknowledged a create
\* call carrying the news_id, parent_id and text of that request, so that a
\* comment with those fields is in the store.
C18_SuccessMeansStored ==
    \A p \in Procs :
        (IsComment(p) /\ gw[p].pc = "done" /\ gw[p].status = StatusOK) =>
            /\ FilterAccepted(p)
            /\ gw[p].store = "served"
            /\ \E i \in 1..Len(hist) :
                  hist[i].done /\ hist[i].body = SavePayload(gw[p].req.body)
            /\ \E k \in 1..Len(comments) :
                  /\ comments[k].NewsID = gw[p].req.body.news_id
                  /\ comments[k].ParentID = gw[p].req.body.parent_id
                  /\ comments[k].Text = gw[p].req.body.text

(***************************************************************************)
(* Claims about what CommentService leaves as it is.                       *)
(***************************************************************************)
\* the request r creates no comment: a list call, a call with another method
\* than GET and POST, a create call whose payload does not decode
NonCreating(r) == r.method # "POST" \/ ~r.body.ok

\* C19: no step of a CommentStore request that creates no comment (a list
\* call, answered or rejected; a create call with an undecodable payload; a
\* call with an unsupported method) changes the comment sequence or the
\* identifier counter.
C19_NonCreatingLeavesStore ==
    [][\A p \in Procs :
          (st[p].pc # "idle" /\ NonCreating(st[p].req) /\ st'[p].pc # st[p].pc) =>
              (comments' = comments /\ nextID' = nextID)]_vars

\* beside a store of two comments whose counter is 3, a list call was
\* answered with a comment and a create call with an undecodable payload was
\* rejected
C19_Witness ==
    \E p, q \in Procs :
        /\ st[p].pc = "done" /\ st[p].req.method = "GET" /\ st[p].status = StatusOK
        /\ st[p].list.elems # <<>>
        /\ st[q].pc = "done" /\ st[q].req.method = "POST" /\ ~st[q].req.body.ok
        /\ st[q].status = StatusBadRequest
        /\ Len(comments) = 2 /\ nextID = 3

====
